---- MODULE Spec2Model ----
(***************************************************************************)
(* Model of the dynamic batch scheduler of app/main.py: the lifespan       *)
(* warm-up, the predict handler (producer side), the asyncio queue and     *)
(* the single consumer coroutine _batch_worker.                            *)
(*                                                                         *)
(* Time is a discrete clock.  Coroutine steps take no time: the clock      *)
(* advances only when no coroutine is ready to run and no armed timer is   *)
(* overdue.  A Labeler call (predict_bio in the executor) may take any     *)
(* amount of time.                                                         *)
(***************************************************************************)
EXTENDS Integers, Sequences, FiniteSets, TLC

\* ---- settings (app/settings.py), scaled to clock ticks ----
BATCH_MAX_SIZE == 3
BATCH_TIMEOUT_MS == 2
queue_maxsize == 2
request_timeout_ms == 3
warmup_requests == 50

\* ---- bounds of the exploration ----
NumCallers == 4
MaxTime == 6

Callers == 1..NumCallers

VARIABLES
    use_queue,    \* settings.use_queue
    phase,        \* lifespan position: "warmup", "warmcall", "serving"
    warmLeft,     \* warm-up predict_bio calls still to make
    now,          \* event-loop clock
    queue,        \* _queue: sequence of request ids
    cstate,       \* position of each predict() call
    tstart,       \* time the current wait_for of each predict() call began
    future,       \* result slot of each request
    wpc,          \* position of _batch_worker
    batch,        \* local `batch` of _batch_worker
    wStart,       \* time the worker's current wait_for(_queue.get()) began
    running,      \* which of "lifespan", "worker" is inside predict_bio
    direct,       \* predict() calls inside predict_bio (fallback path)
    invocations,  \* log of predict_bio calls made after startup: by, texts
    admitSeq,     \* log: request ids in the order they entered _queue
    admitAt,      \* log: time each request entered _queue
    openedAt,     \* log: time the worker took the first request of `batch`
    dispatched,   \* log: one record per batch closed by the worker
    pipe          \* one run of predict_bio on one text: stage and values

vars == <<use_queue, phase, warmLeft, now, queue, cstate, tstart, future,
          wpc, batch, wStart, running, direct, invocations, admitSeq, admitAt,
          openedAt, dispatched, pipe>>

\* the variables of the scheduler
schedVars == <<use_queue, phase, warmLeft, now, queue, cstate, tstart, future,
               wpc, batch, wStart, running, direct, invocations, admitSeq,
               admitAt, openedAt, dispatched>>

Min(a, b) == IF a < b THEN a ELSE b
Max(a, b) == IF a > b THEN a ELSE b

\* ---- pure helpers ----

\* predict(): the request's texts are [inp.input]; the text of caller c is c
TextsOf(c) == <<c>>

\* the Labeler's record for one text (an opaque function of the text)
Lab(t) == t + 100

\* predict_bio: one record per input text, in input order
PredictBio(texts) == [i \in 1..Len(texts) |-> Lab(texts[i])]

\* Python slice result[p : p + n] (clamped, never raises)
PySlice(s, p, n) ==
    LET lo == Min(p, Len(s))
        hi == Min(p + n, Len(s))
    IN  [i \in 1..(hi - lo) |-> s[lo + i]]

\* sum([x["texts"] for x in batch], [])
RECURSIVE ConcatTexts(_)
ConcatTexts(b) ==
    IF b = <<>> THEN <<>> ELSE TextsOf(Head(b)) \o ConcatTexts(Tail(b))

NoError == [type |-> "none", call |-> 0]
NoFuture == [state |-> "none", result |-> <<>>, exc |-> NoError]
PendingFuture == [state |-> "pending", result |-> <<>>, exc |-> NoError]

Done(f) == f.state # "pending"

\* mutant: the except-branch stops after the first slot of the batch
FailPendingFirstOnly(fs, b, e) ==
    [c \in Callers |->
        IF b # <<>> /\ b[1] = c /\ fs[c].state = "pending"
        THEN [state |-> "exception", result |-> <<>>, exc |-> e]
        ELSE fs[c]]

\* the except-branch of _batch_worker: fail every slot that is not done with
\* the one exception e that was caught (e.call: the Labeler call it came from)
FailPending(fs, b, e) ==
    [c \in Callers |->
        IF (\E k \in 1..Len(b) : b[k] = c) /\ ~Done(fs[c])
        THEN [state |-> "exception", result |-> <<>>, exc |-> e]
        ELSE fs[c]]

\* mutant: the offset p is not advanced, every slot gets result[0 : n]
RECURSIVE SetResultsNoAdvance(_, _, _, _, _)
SetResultsNoAdvance(fs, b, result, p, k) ==
    IF k > Len(b) THEN [futures |-> fs, ok |-> TRUE]
    ELSE LET x == b[k]
             n == Len(TextsOf(x))
         IN  IF fs[x].state # "pending"
             THEN [futures |->
                     [c \in Callers |->
                        IF (\E i \in 1..Len(b) : b[i] = c)
                             /\ fs[c].state = "pending"
                        THEN [state |-> "exception", result |-> <<>>,
                              exc |-> [type |-> "InvalidStateError",
                                       call |-> Len(dispatched)]]
                        ELSE fs[c]],
                   ok |-> FALSE]
             ELSE SetResultsNoAdvance(
                    [fs EXCEPT ![x] = [state |-> "result",
                                       result |-> PySlice(result, p, n),
                                       exc |-> NoError]],
                    b, result, p, k + 1)

\* the for-loop of the try-branch: set_result on each slot in batch order;
\* set_result on a slot that is already done raises InvalidStateError, which
\* the except-branch turns into a failure of every slot still pending.
\* Returns the new slots and whether the loop ran to its end.
RECURSIVE SetResults(_, _, _, _, _)
SetResults(fs, b, result, p, k) ==
    IF k > Len(b) THEN [futures |-> fs, ok |-> TRUE]
    ELSE LET x == b[k]
             n == Len(TextsOf(x))
         IN  IF Done(fs[x])
             THEN [futures |-> FailPending(fs, b, [type |-> "InvalidStateError",
                                                     call |-> Len(dispatched)]),
                   ok |-> FALSE]
             ELSE SetResults(
                    [fs EXCEPT ![x] = [state |-> "result",
                                       result |-> PySlice(result, p, n),
                                       exc |-> NoError]],
                    b, result, p + n, k + 1)

Pos(s, c) == CHOOSE i \in 1..Len(s) : s[i] = c
InSeq(s, c) == \E i \in 1..Len(s) : s[i] = c

\* max(1, settings.warmup_requests // 4) calls of predict_bio in lifespan
WarmupCalls == Max(1, warmup_requests \div 4)

Init ==
    /\ use_queue \in BOOLEAN
    /\ phase = "warmup"
    /\ warmLeft = WarmupCalls
    /\ now = 0
    /\ queue = <<>>
    /\ cstate = [c \in Callers |-> "new"]
    /\ tstart = [c \in Callers |-> 0]
    /\ future = [c \in Callers |-> NoFuture]
    /\ wpc = "notstarted"
    /\ batch = <<>>
    /\ wStart = 0
    /\ running = {}
    /\ direct = {}
    /\ invocations = <<>>
    /\ admitSeq = <<>>
    /\ admitAt = [c \in Callers |-> 0]
    /\ openedAt = 0
    /\ dispatched = <<>>
    /\ pipe = [pc |-> "off"]

\* ---- lifespan (startup) ----

\* lifespan: predict_bio(sample) is entered
WarmupCall ==
    /\ phase = "warmup" /\ warmLeft > 0
    /\ phase' = "warmcall"
    /\ running' = running \cup {"lifespan"}
    /\ UNCHANGED <<pipe, use_queue, warmLeft, now, queue, cstate, tstart, future,
                   wpc, batch, wStart, direct, invocations, admitSeq, admitAt, openedAt, dispatched>>

\* lifespan: predict_bio(sample) returns, or raises (the rest of the warm-up
\* is skipped with a warning)
WarmupReturn(ok) ==
    /\ phase = "warmcall"
    /\ phase' = "warmup"
    /\ running' = running \ {"lifespan"}
    /\ warmLeft' = IF ok THEN warmLeft - 1 ELSE 0
    /\ UNCHANGED <<pipe, use_queue, now, queue, cstate, tstart, future, wpc, batch,
                   wStart, direct, invocations, admitSeq, admitAt, openedAt, dispatched>>

\* lifespan: create_task(_batch_worker()) if use_queue, then yield
LifespanYield ==
    /\ phase = "warmup" /\ warmLeft = 0
    /\ phase' = "serving"
    /\ wpc' = IF use_queue THEN "idle" ELSE wpc
    /\ UNCHANGED <<pipe, use_queue, warmLeft, now, queue, cstate, tstart, future,
                   batch, wStart, running, direct, invocations, admitSeq,
                   admitAt, openedAt, dispatched>>

\* ---- predict(): producer side ----

QueueFull == Len(queue) >= queue_maxsize

\* _queue.put(item) going through: the item enters the queue and predict()
\* goes on to wait_for(fut, request timeout)
Admit(c) ==
    /\ queue' = Append(queue, c)
    /\ cstate' = [cstate EXCEPT ![c] = "waiting"]
    /\ tstart' = [tstart EXCEPT ![c] = now]
    /\ admitSeq' = Append(admitSeq, c)
    /\ admitAt' = [admitAt EXCEPT ![c] = now]

\* predict() is called with use_queue: the slot is created and the put is
\* started; it goes through at once unless the queue is full
PredictQueued(c) ==
    /\ phase = "serving" /\ use_queue
    /\ cstate[c] = "new"
    /\ \A d \in Callers : d < c => cstate[d] # "new"
    /\ future' = [future EXCEPT ![c] = PendingFuture]
    /\ IF QueueFull
       THEN /\ cstate' = [cstate EXCEPT ![c] = "putting"]
            /\ tstart' = [tstart EXCEPT ![c] = now]
            /\ UNCHANGED <<queue, admitSeq, admitAt>>
       ELSE Admit(c)
    /\ UNCHANGED <<pipe, use_queue, phase, warmLeft, now, wpc, batch, wStart,
                   running, direct, invocations, openedAt, dispatched>>

\* a blocked put goes through once the queue has room
PutCompletes(c) ==
    /\ cstate[c] = "putting"
    /\ ~QueueFull
    /\ Admit(c)
    /\ UNCHANGED <<pipe, use_queue, phase, warmLeft, now, future, wpc, batch,
                   wStart, running, direct, invocations, openedAt, dispatched>>

\* mutant: the caller is answered 503 but the timed-out put is not
\* cancelled and its item still lands in the queue
PutTimesOutStillQueued(c) ==
    /\ cstate[c] = "putting"
    /\ now - tstart[c] >= BATCH_TIMEOUT_MS
    /\ cstate' = [cstate EXCEPT ![c] = "busy503"]
    /\ queue' = Append(queue, c)
    /\ UNCHANGED <<pipe, use_queue, phase, warmLeft, now, tstart, future,
                   wpc, batch, wStart, running, direct, invocations,
                   admitSeq, admitAt, openedAt, dispatched>>

\* wait_for(_queue.put(..), batch timeout) times out: HTTP 503 Queue is busy
PutTimesOut(c) ==
    /\ cstate[c] = "putting"
    /\ now - tstart[c] >= BATCH_TIMEOUT_MS
    /\ cstate' = [cstate EXCEPT ![c] = "busy503"]
    /\ UNCHANGED <<pipe, use_queue, phase, warmLeft, now, queue, tstart, future,
                   wpc, batch, wStart, running, direct, invocations,
                   admitSeq, admitAt, openedAt, dispatched>>

\* wait_for(fut, ..) returns the slot's result / re-raises its exception
AwaitResolved(c) ==
    /\ cstate[c] = "waiting"
    /\ future[c].state \in {"result", "exception"}
    /\ cstate' = [cstate EXCEPT ![c] =
                    IF future[c].state = "result" THEN "done" ELSE "failed"]
    /\ UNCHANGED <<pipe, use_queue, phase, warmLeft, now, queue, tstart, future,
                   wpc, batch, wStart, running, direct, invocations,
                   admitSeq, admitAt, openedAt, dispatched>>

\* mutant: waits on the slots time out in no particular order
TimerAnyOrder(c) == cstate[c] = "waiting"

\* Timers armed with the same timeout expire in the order they were armed:
\* a predict() call arms its wait on the slot when its request enters the
\* queue, so no wait times out before the wait of an earlier admitted request
TimerOrder(c) ==
    \A d \in Callers :
        (cstate[d] = "waiting" /\ ~Done(future[d]) /\ InSeq(admitSeq, d))
            => Pos(admitSeq, d) >= Pos(admitSeq, c)

\* mutant: the timed-out wait cancels the slot whatever its state
AwaitTimesOutOverwrites(c) ==
    /\ cstate[c] = "waiting"
    /\ now - tstart[c] >= request_timeout_ms
    /\ TimerOrder(c)
    /\ cstate' = [cstate EXCEPT ![c] = "timedout"]
    /\ future' = [future EXCEPT ![c] =
                    [state |-> "cancelled", result |-> <<>>, exc |-> NoError]]
    /\ UNCHANGED <<pipe, use_queue, phase, warmLeft, now, queue, tstart, wpc,
                   batch, wStart, running, direct, invocations, admitSeq,
                   admitAt, openedAt, dispatched>>

\* wait_for(fut, request timeout) times out: the slot is cancelled (a slot
\* that is already done stays as it is) and TimeoutError is raised
AwaitTimesOut(c) ==
    /\ cstate[c] = "waiting"
    /\ now - tstart[c] >= request_timeout_ms
    /\ TimerOrder(c)
    /\ cstate' = [cstate EXCEPT ![c] = "timedout"]
    /\ future' = [future EXCEPT ![c] =
                    IF Done(@) THEN @
                    ELSE [state |-> "cancelled", result |-> <<>>,
                          exc |-> NoError]]
    /\ UNCHANGED <<pipe, use_queue, phase, warmLeft, now, queue, tstart, wpc,
                   batch, wStart, running, direct, invocations, admitSeq,
                   admitAt, openedAt, dispatched>>

\* predict() without use_queue: predict_bio([inp.input]) in the thread pool
PredictDirect(c) ==
    /\ phase = "serving" /\ ~use_queue
    /\ cstate[c] = "new"
    /\ \A d \in Callers : d < c => cstate[d] # "new"
    /\ cstate' = [cstate EXCEPT ![c] = "direct"]
    /\ direct' = direct \cup {c}
    /\ invocations' = Append(invocations,
                             [by |-> "predict", texts |-> TextsOf(c)])
    /\ UNCHANGED <<pipe, use_queue, phase, warmLeft, now, queue, tstart, future,
                   wpc, batch, wStart, running, admitSeq, admitAt,
                   openedAt, dispatched>>

\* the fallback call returns or raises
DirectReturns(c, ok) ==
    /\ cstate[c] = "direct"
    /\ cstate' = [cstate EXCEPT ![c] = IF ok THEN "done" ELSE "failed"]
    /\ direct' = direct \ {c}
    /\ UNCHANGED <<pipe, use_queue, phase, warmLeft, now, queue, tstart, future,
                   wpc, batch, wStart, running, invocations, admitSeq,
                   admitAt, openedAt, dispatched>>

\* ---- _batch_worker(): consumer side ----

\* mutant: the Labeler call is started but not awaited, the worker goes
\* straight back to _queue.get()
DispatchNoAwait(b, opened) ==
    /\ wpc' = "idle"
    /\ batch' = <<>>
    /\ running' = running \cup {"worker"}
    /\ invocations' = Append(invocations,
                             [by |-> "worker", texts |-> ConcatTexts(b)])
    /\ dispatched' = Append(dispatched,
                            [ids |-> b, texts |-> ConcatTexts(b),
                             openedAt |-> opened, at |-> now,
                             outcome |-> "inflight"])
    /\ UNCHANGED wStart

\* mutant: the call is started but the worker stays in the collecting loop
DispatchKeepsCollecting(b, opened) ==
    /\ wpc' = "collect"
    /\ batch' = b
    /\ running' = running \cup {"worker"}
    /\ invocations' = Append(invocations,
                             [by |-> "worker", texts |-> ConcatTexts(b)])
    /\ dispatched' = Append(dispatched,
                            [ids |-> b, texts |-> ConcatTexts(b),
                             openedAt |-> opened, at |-> now,
                             outcome |-> "inflight"])
    /\ UNCHANGED wStart

\* the batch is closed: texts = sum(..), predict_bio(texts) is handed to the
\* executor and the worker awaits it
Dispatch(b, opened) ==
    /\ wpc' = "running"
    /\ batch' = b
    /\ running' = running \cup {"worker"}
    /\ invocations' = Append(invocations,
                             [by |-> "worker", texts |-> ConcatTexts(b)])
    /\ dispatched' = Append(dispatched,
                            [ids |-> b, texts |-> ConcatTexts(b),
                             openedAt |-> opened, at |-> now,
                             outcome |-> "inflight"])
    /\ UNCHANGED wStart

\* mutant: off by one, the loop runs while len(batch) <= BATCH_MAX_SIZE
CollectOrDispatchOffByOne(b, opened) ==
    IF Len(b) <= BATCH_MAX_SIZE
    THEN /\ wpc' = "collect"
         /\ batch' = b
         /\ wStart' = now
         /\ UNCHANGED <<running, invocations, dispatched>>
    ELSE Dispatch(b, opened)

\* while len(batch) < BATCH_MAX_SIZE: start another wait_for(_queue.get(),
\* batch timeout); otherwise leave the loop and dispatch
CollectOrDispatch(b, opened) ==
    IF Len(b) < BATCH_MAX_SIZE
    THEN /\ wpc' = "collect"
         /\ batch' = b
         /\ wStart' = now
         /\ UNCHANGED <<running, invocations, dispatched>>
    ELSE Dispatch(b, opened)

\* first = await _queue.get(); batch = [first]
WorkerGetFirst ==
    /\ wpc = "idle"
    /\ queue # <<>>
    /\ queue' = Tail(queue)
    /\ openedAt' = now
    /\ CollectOrDispatch(<<Head(queue)>>, now)
    /\ UNCHANGED <<pipe, use_queue, phase, warmLeft, now, cstate, tstart, future,
                   direct, admitSeq, admitAt>>

\* mutant: the item is read from the queue but not removed from it
WorkerGetNextNoPop ==
    /\ wpc = "collect"
    /\ queue # <<>>
    /\ queue' = queue
    /\ CollectOrDispatch(Append(batch, Head(queue)), openedAt)
    /\ UNCHANGED <<pipe, use_queue, phase, warmLeft, now, cstate, tstart, future,
                   direct, admitSeq, admitAt, openedAt>>

\* mutant: the item is put in front of the batch
WorkerGetNextPrepend ==
    /\ wpc = "collect"
    /\ queue # <<>>
    /\ queue' = Tail(queue)
    /\ CollectOrDispatch(<<Head(queue)>> \o batch, openedAt)
    /\ UNCHANGED <<pipe, use_queue, phase, warmLeft, now, cstate, tstart, future,
                   direct, admitSeq, admitAt, openedAt>>

\* item = await wait_for(_queue.get(), ..); batch.append(item)
WorkerGetNext ==
    /\ wpc = "collect"
    /\ queue # <<>>
    /\ queue' = Tail(queue)
    /\ CollectOrDispatch(Append(batch, Head(queue)), openedAt)
    /\ UNCHANGED <<pipe, use_queue, phase, warmLeft, now, cstate, tstart, future,
                   direct, admitSeq, admitAt, openedAt>>

\* the current wait_for(_queue.get(), ..) raises TimeoutError
WorkerGetTimesOut ==
    /\ wpc = "collect"
    /\ now - wStart >= BATCH_TIMEOUT_MS
    /\ Dispatch(batch, openedAt)
    /\ UNCHANGED <<pipe, use_queue, phase, warmLeft, now, queue, cstate, tstart,
                   future, direct, admitSeq, admitAt, openedAt>>

SetOutcome(o) ==
    [dispatched EXCEPT ![Len(dispatched)].outcome = o]

\* predict_bio returns: the result is split and every slot is resolved (or
\* the loop raises and the except-branch runs); back to _queue.get()
LabelerReturns ==
    /\ wpc = "running"
    /\ LET r == SetResults(future, batch, PredictBio(ConcatTexts(batch)), 0, 1)
       IN  /\ future' = r.futures
           /\ dispatched' = SetOutcome(IF r.ok THEN "ok" ELSE "resolve_error")
    /\ wpc' = "idle"
    /\ batch' = <<>>
    /\ running' = running \ {"worker"}
    /\ UNCHANGED <<pipe, use_queue, phase, warmLeft, now, queue, cstate, tstart,
                   wStart, direct, invocations, admitSeq, admitAt, openedAt>>

\* mutant: the exception is not caught and ends the worker task
LabelerRaisesStops ==
    /\ wpc = "running"
    /\ dispatched' = SetOutcome("labeler_error")
    /\ wpc' = "stopped"
    /\ batch' = <<>>
    /\ running' = running \ {"worker"}
    /\ UNCHANGED <<pipe, use_queue, phase, warmLeft, now, queue, cstate, tstart,
                   future, wStart, direct, invocations, admitSeq, admitAt,
                   openedAt>>

\* predict_bio raises: every slot of the batch that is not done is failed
\* with the raised exception; back to _queue.get()
LabelerRaises ==
    /\ wpc = "running"
    /\ future' = FailPending(future, batch,
                           [type |-> "LabelerError", call |-> Len(dispatched)])
    /\ dispatched' = SetOutcome("labeler_error")
    /\ wpc' = "idle"
    /\ batch' = <<>>
    /\ running' = running \ {"worker"}
    /\ UNCHANGED <<pipe, use_queue, phase, warmLeft, now, queue, cstate, tstart,
                   wStart, direct, invocations, admitSeq, admitAt, openedAt>>

\* ---- the clock ----

WorkerReady ==
    \/ wpc = "idle" /\ queue # <<>>
    \/ wpc = "collect" /\ (queue # <<>> \/ now - wStart >= BATCH_TIMEOUT_MS)

CallerReady(c) ==
    \/ cstate[c] = "putting"
         /\ (~QueueFull \/ now - tstart[c] >= BATCH_TIMEOUT_MS)
    \/ cstate[c] = "waiting"
         /\ (Done(future[c]) \/ now - tstart[c] >= request_timeout_ms)

\* time passes while nothing on the event loop is ready to run
Tick ==
    /\ phase = "serving"
    /\ now < MaxTime
    /\ ~WorkerReady
    /\ \A c \in Callers : ~CallerReady(c)
    /\ now' = now + 1
    /\ UNCHANGED <<pipe, use_queue, phase, warmLeft, queue, cstate, tstart, future,
                   wpc, batch, wStart, running, direct, invocations,
                   admitSeq, admitAt, openedAt, dispatched>>

Next ==
    \/ WarmupCall
    \/ \E ok \in BOOLEAN : WarmupReturn(ok)
    \/ LifespanYield
    \/ \E c \in Callers : PredictQueued(c)
    \/ \E c \in Callers : PutCompletes(c)
    \/ \E c \in Callers : PutTimesOut(c)
    \/ \E c \in Callers : AwaitResolved(c)
    \/ \E c \in Callers : AwaitTimesOut(c)
    \/ \E c \in Callers : PredictDirect(c)
    \/ \E c \in Callers, ok \in BOOLEAN : DirectReturns(c, ok)
    \/ WorkerGetFirst
    \/ WorkerGetNext
    \/ WorkerGetTimesOut
    \/ LabelerReturns
    \/ LabelerRaises
    \/ Tick

Spec == Init /\ [][Next]_vars

\* The event loop runs every coroutine that is ready and fires every timer
\* that is due, the clock advances while nothing is ready, and every
\* Labeler call of the worker returns or raises.  Nothing is assumed about
\* the arrival of requests.
Fairness ==
    /\ WF_vars(Tick)
    /\ WF_vars(WorkerGetFirst)
    /\ WF_vars(WorkerGetNext)
    /\ WF_vars(WorkerGetTimesOut)
    /\ WF_vars(LabelerReturns \/ LabelerRaises)
    /\ \A c \in Callers :
          /\ WF_vars(PutCompletes(c))
          /\ WF_vars(PutTimesOut(c))
          /\ WF_vars(AwaitResolved(c))
          /\ WF_vars(AwaitTimesOut(c))

SpecLive == Init /\ [][Next]_vars /\ Fairness

\* ---- vocabulary of the properties ----

Batches == 1..Len(dispatched)
Members(j) == {dispatched[j].ids[k] : k \in 1..Len(dispatched[j].ids)}
Resolved(j) == dispatched[j].outcome # "inflight"
\* the Labeler call of batch j returned (it did not raise)
LabelerOk(j) == dispatched[j].outcome \in {"ok", "resolve_error"}
\* the batch a dispatched request went out in
BatchOf(c) == CHOOSE j \in Batches : c \in Members(j)
IsDispatched(c) == \E j \in Batches : c \in Members(j)
\* what a request is owed: the Labeler's record of each of its own texts,
\* in its own text order
Expected(c) == [i \in 1..Len(TextsOf(c)) |-> Lab(TextsOf(c)[i])]
HasOwnSlice(c) ==
    future[c].state = "result" /\ future[c].result = Expected(c)
Count(s, c) == Cardinality({i \in 1..Len(s) : s[i] = c})
\* predict_bio calls in flight, whoever made them
InFlight ==
    Cardinality({j \in Batches : ~Resolved(j)})
      + Cardinality(running \ {"worker"}) + Cardinality(direct)

\* C1: a caller whose wait on its slot timed out (the slot is cancelled) does
\* not alter its batch: when the Labeler call of the batch succeeds, every
\* other request of the batch is resolved with its own slice, never with an
\* error.
C1_TimeoutLeavesBatchIntact ==
    \A j \in Batches :
        (Resolved(j) /\ LabelerOk(j)) =>
            \A c \in Members(j) :
                future[c].state # "cancelled" => HasOwnSlice(c)

\* C2: an open batch is closed as soon as it holds BATCH_MAX_SIZE requests or
\* one batch timeout has passed since it opened: no batch is open for longer
\* than one batch timeout.
C2_OpenAtMostOneTimeout ==
    /\ wpc = "collect" =>
          (Len(batch) < BATCH_MAX_SIZE /\ now - openedAt <= BATCH_TIMEOUT_MS)
    /\ \A j \in Batches :
          dispatched[j].at - dispatched[j].openedAt <= BATCH_TIMEOUT_MS

C4_NoPartialSuccess ==
    \A j \in Batches :
        Resolved(j) =>
            ~ \E c, d \in Members(j) :
                  future[c].state = "result" /\ future[d].state = "exception"

\* a batch whose Labeler call succeeded and whose resolution hit a cancelled
\* slot, with a member failed by it
C4_Witness ==
    \E j \in Batches :
        /\ dispatched[j].outcome = "resolve_error"
        /\ Len(dispatched[j].ids) >= 3
        /\ \E d \in Members(j) : future[d].state = "exception"

\* C5 (as stated): only the consumer loop calls the Labeler and no two calls
\* run at the same time, for any number of concurrent predict() calls.
C5_OnlyWorkerInvokes ==
    /\ running \subseteq {"worker"}
    /\ direct = {}
    /\ InFlight <= 1

\* C5 (amended): with use_queue set, at most one Labeler call is in flight at
\* any time, and once startup has finished every Labeler call is made by the
\* consumer loop.
C5_WorkerSerializesWhenQueued ==
    use_queue =>
        /\ InFlight <= 1
        /\ phase = "serving" => (running \subseteq {"worker"} /\ direct = {})
        /\ \A i \in 1..Len(invocations) : invocations[i].by = "worker"

\* several predict() calls are in the system while the worker's call runs
C5_Witness ==
    /\ use_queue
    /\ wpc = "running"
    /\ Cardinality({c \in Callers : cstate[c] = "waiting"}) >= 3
    /\ Len(dispatched) >= 2

\* C6: on a successful dispatch every request of the batch holds exactly the
\* Labeler's records of its own texts (as many as its texts, in its own text
\* order); no slot ever holds a result other than its own slice.
C6_OwnSlice ==
    /\ \A j \in Batches :
          dispatched[j].outcome = "ok" =>
              \A c \in Members(j) : HasOwnSlice(c)
    /\ \A c \in Callers :
          future[c].state = "result" =>
              /\ Len(future[c].result) = Len(TextsOf(c))
              /\ future[c].result = Expected(c)

C6_Witness ==
    \E j \in Batches :
        /\ dispatched[j].outcome = "ok"
        /\ Len(dispatched[j].ids) = BATCH_MAX_SIZE
        /\ \A c \in Members(j) : cstate[c] = "done"

\* C7: every admitted request is in exactly one place (the queue, the open
\* batch, or one dispatched batch, once), a request that was not admitted is
\* in none, and each dispatched batch is one Labeler call carrying exactly
\* the texts of its requests.
C7_ExactlyOnce ==
    /\ \A c \in Callers :
          LET inQueue == Count(queue, c)
              inOpen == IF wpc = "collect" THEN Count(batch, c) ELSE 0
              inSent == Cardinality({<<j, k>> \in Batches \X (1..NumCallers) :
                                        /\ k <= Len(dispatched[j].ids)
                                        /\ dispatched[j].ids[k] = c})
              inCalls == Cardinality(
                            {<<i, k>> \in (1..Len(invocations)) \X (1..NumCallers) :
                                /\ k <= Len(invocations[i].texts)
                                /\ invocations[i].texts[k] = TextsOf(c)[1]})
          IN  /\ inQueue + inOpen + inSent = IF InSeq(admitSeq, c) THEN 1 ELSE 0
              /\ use_queue => inCalls = inSent
    /\ use_queue =>
          /\ Len(invocations) = Len(dispatched)
          /\ \A j \in Batches :
                /\ invocations[j].texts = dispatched[j].texts
                /\ Len(dispatched[j].texts) = Len(dispatched[j].ids)

\* three batches went out, the queue having been drained each time
C7_Witness ==
    /\ Len(dispatched) >= 3
    /\ \E j \in Batches : Len(dispatched[j].ids) >= 2
    /\ \A c \in Callers : InSeq(admitSeq, c) => IsDispatched(c)

\* C8: BATCH_MAX_SIZE requests admitted back-to-back (all by the time the
\* batch opens) go out as one batch of that size at that same time; a single
\* request that no other follows within the batch timeout goes out alone
\* exactly one batch timeout after the batch opened.
C8_SizingAndTiming ==
    /\ wpc = "collect" => Len(batch) < BATCH_MAX_SIZE
    /\ \A j \in Batches :
          LET d == dispatched[j]
              k == Pos(admitSeq, d.ids[1])
              last == k + BATCH_MAX_SIZE - 1
          IN  /\ (/\ last <= Len(admitSeq)
                  /\ \A i \in k..last : admitAt[admitSeq[i]] <= d.openedAt)
                    => (d.ids = SubSeq(admitSeq, k, last) /\ d.at = d.openedAt)
              /\ (\A i \in (k + 1)..Len(admitSeq) :
                      admitAt[admitSeq[i]] > d.openedAt + BATCH_TIMEOUT_MS)
                    => (Len(d.ids) = 1 /\ d.at = d.openedAt + BATCH_TIMEOUT_MS)

\* a full batch that went out the moment it opened, and a batch of one
C8_Witness ==
    /\ \E j \in Batches :
          /\ Len(dispatched[j].ids) = BATCH_MAX_SIZE
          /\ dispatched[j].at = dispatched[j].openedAt
          /\ \A c \in Members(j) : admitAt[c] = dispatched[j].openedAt
    /\ \E j \in Batches :
          /\ Len(dispatched[j].ids) = 1
          /\ dispatched[j].at = dispatched[j].openedAt + BATCH_TIMEOUT_MS

\* C9: a request whose put cannot complete within the submission deadline is
\* answered 503 instead of blocking on: it never enters the queue, a batch
\* or a Labeler call, and no put stays blocked beyond the deadline.
C9_BoundedAdmission ==
    \A c \in Callers :
        /\ cstate[c] = "putting" => now - tstart[c] <= BATCH_TIMEOUT_MS
        /\ cstate[c] = "busy503" =>
              /\ ~InSeq(queue, c)
              /\ ~InSeq(batch, c)
              /\ ~InSeq(admitSeq, c)
              /\ ~IsDispatched(c)
              /\ \A i \in 1..Len(invocations) :
                    ~InSeq(invocations[i].texts, TextsOf(c)[1])
              /\ future[c].state = "pending"

\* a request was refused: the queue stayed full for the whole deadline while
\* the worker was inside a Labeler call
C9_Witness ==
    \E c \in Callers :
        /\ cstate[c] = "busy503"
        /\ now = tstart[c] + BATCH_TIMEOUT_MS
        /\ QueueFull
        /\ wpc = "running"

\* C10: batches are formed in arrival order: if A entered the queue before B
\* and B has been dispatched, A was dispatched in the same or an earlier
\* batch, and within one batch A's texts come before B's in the Labeler call.
C10_ArrivalOrder ==
    \A i, k \in 1..Len(admitSeq) :
        LET a == admitSeq[i]
            b == admitSeq[k]
        IN  (i < k /\ IsDispatched(b)) =>
                /\ IsDispatched(a)
                /\ BatchOf(a) <= BatchOf(b)
                /\ BatchOf(a) = BatchOf(b) =>
                      LET t == dispatched[BatchOf(a)].texts
                      IN  Pos(t, TextsOf(a)[1]) < Pos(t, TextsOf(b)[1])

\* a batch of several requests followed by another batch
C10_Witness ==
    \E j, i \in Batches :
        /\ j < i
        /\ Len(dispatched[j].ids) >= 2
        /\ Len(dispatched[i].ids) >= 2

\* C11 (as stated): Submitted -> Batched -> Dispatched -> {Completed |
\* Failed}: a slot leaves the pending state only after its batch has been
\* dispatched to the Labeler, and it ends Completed or Failed.
C11_LeavesPendingOnlyAfterDispatch ==
    \A c \in Callers :
        future[c].state \notin {"none", "pending"} =>
            /\ IsDispatched(c)
            /\ future[c].state \in {"result", "exception"}

\* a slot that has left the pending state
Settled(f) == f.state \in {"result", "exception", "cancelled"}

\* C11 (amended): a slot is resolved with a result or an error only by the
\* worker, after the request went from the queue into a batch, the batch was
\* dispatched and its Labeler call ended; the only other way out of the
\* pending state is cancellation by the request's own caller timing out,
\* which can happen at any stage; a slot that has left the pending state
\* never changes again.
C11_Lifecycle ==
    /\ [](\A c \in Callers :
            /\ future[c].state \in {"result", "exception"} =>
                  /\ InSeq(admitSeq, c)
                  /\ IsDispatched(c)
                  /\ Resolved(BatchOf(c))
            /\ future[c].state = "cancelled" =>
                  (InSeq(admitSeq, c) /\ cstate[c] = "timedout")
            /\ (InSeq(queue, c) \/ (wpc = "collect" /\ InSeq(batch, c))) =>
                  future[c].state \in {"pending", "cancelled"})
    /\ [][\A c \in Callers :
            /\ Settled(future[c]) => future'[c] = future[c]
            /\ IsDispatched(c) => IsDispatched(c)'
            /\ (future[c].state = "pending" /\ future'[c] # future[c]) =>
                  \/ future'[c].state = "cancelled"
                  \/ (wpc = "running" /\ InSeq(batch, c))]_vars

\* one request was cancelled while still in the queue, another was resolved
\* by the worker and its late time-out left the slot alone
C11_Witness ==
    /\ \E c \in Callers :
          future[c].state = "cancelled" /\ InSeq(queue, c)
    /\ \E c \in Callers :
          future[c].state \in {"result", "exception"} /\ cstate[c] = "timedout"

\* the worker's Labeler call is in flight
WorkerCallInFlight == "worker" \in running

\* request c entered the queue early enough for the clock of the model to
\* run the request timeout
AdmittedInTime(c) ==
    InSeq(admitSeq, c) /\ admitAt[c] + request_timeout_ms <= MaxTime

\* a step in which the worker's Labeler call ends with an exception, raised
\* by the call or while the slots are resolved
CallEndsInError ==
    /\ WorkerCallInFlight
    /\ Len(dispatched') = Len(dispatched)
    /\ dispatched'[Len(dispatched)].outcome \in {"labeler_error", "resolve_error"}

\* C25: every request admitted to the queue eventually has its slot
\* resolved (result, exception or cancelled by its caller); a step that ends
\* the worker's call with an exception leaves the worker waiting for the
\* next request, and every call in flight leads to the worker waiting
\* again.
C25_EventuallyResolved ==
    /\ \A c \in Callers : AdmittedInTime(c) ~> Done(future[c])
    /\ [][CallEndsInError => wpc' = "idle"]_vars
    /\ WorkerCallInFlight ~> (wpc = "idle")

\* after a Labeler call that raised, a later batch was served, every
\* admitted request is resolved and one of them was cancelled by its caller
C25_Witness ==
    /\ wpc = "idle"
    /\ \E j, k \in Batches :
          /\ j < k
          /\ dispatched[j].outcome = "labeler_error"
          /\ dispatched[k].outcome = "ok"
    /\ \A c \in Callers : InSeq(admitSeq, c) => Done(future[c])
    /\ \E c \in Callers : future[c].state = "cancelled"

\* C26: every batch holds at least 1 and at most BATCH_MAX_SIZE requests
\* when it is dispatched, and while its Labeler call is in flight the
\* worker's batch is still the list that was dispatched: no request is
\* added to it (requests that arrive meanwhile stay in the queue).
C26_BatchBoundsAndFrozen ==
    /\ \A j \in Batches :
          /\ Len(dispatched[j].ids) >= 1
          /\ Len(dispatched[j].ids) <= BATCH_MAX_SIZE
    /\ WorkerCallInFlight =>
          /\ dispatched # <<>>
          /\ ~Resolved(Len(dispatched))
          /\ batch = dispatched[Len(dispatched)].ids
          /\ \A k \in 1..Len(queue) : ~InSeq(batch, queue[k])

\* a full batch in flight while another request waits in the queue
C26_Witness ==
    /\ WorkerCallInFlight
    /\ Len(batch) = BATCH_MAX_SIZE
    /\ queue # <<>>
    /\ batch = dispatched[Len(dispatched)].ids

(***************************************************************************)
(* The span pipeline of app/postprocess.py and predict_bio (app/infer.py). *)
(*                                                                         *)
(* A text is a sequence of characters; a character is written as a short   *)
(* ASCII name: digit "5"; "." "," "%" "-"; space " "; Cyrillic lower-case  *)
(* letters а "a", б "b", в "v", г "g", д "d", е "e", ж "zh", з "z", и "i", *)
(* й "j", к "k", л "l", м "m", н "n", о "o", п "p", р "r", с "s", т "t",   *)
(* у "u", ф "f", х "h", ц "c", ч "ch", ш "sh", щ "sch", ъ "w", ы "y",      *)
(* ь "q", э "eh", ю "yu", я "ya"; ё "yo"; upper-case В "V".                *)
(* Offsets are Python's: a span (s, e) covers the characters s+1 .. e.     *)
(***************************************************************************)

\* [а-я] (ё is outside that range)
CyrLower == {"a", "b", "v", "g", "d", "e", "zh", "z", "i", "j", "k", "l", "m",
             "n", "o", "p", "r", "s", "t", "u", "f", "h", "c", "ch", "sh",
             "sch", "w", "y", "q", "eh", "yu", "ya"}
CyrUpper == {"V"}
Digits == {"5"}
\* string.punctuation and the quotes stripped by _normalize_token
Punct == {".", ",", "%", "-"}

IsSpace(ch) == ch = " "
IsDigit(ch) == ch \in Digits
\* [а-я] under re.IGNORECASE
IsAYa(ch) == ch \in CyrLower \cup CyrUpper
\* \w
IsWordChar(ch) == ch \in CyrLower \cup CyrUpper \cup Digits \cup {"yo"}
\* str.lower() on one character
Lower(ch) == IF ch = "V" THEN "v" ELSE ch

\* s[a:b] for 0 <= a, b (clamped)
Slice(s, a, b) ==
    LET lo == Min(a, Len(s))
        hi == Min(b, Len(s))
    IN  [i \in 1..(hi - lo) |-> s[lo + i]]

\* ---- the regular expressions ----
\* A sub-pattern at position p is given by the sequence of positions it can
\* end at, in the order the backtracking matcher tries them.

\* F at the value of e. An operator argument and a LET definition stand
\* for their expression, which is evaluated at each use; the variable of a
\* set constructor stands for a value, so e is evaluated once.
Bind(e, F(_)) == CHOOSE r \in { F(x) : x \in {e} } : TRUE

\* the concatenation of F(ends[k]) for k = from, from + 1, ..
RECURSIVE FlatFrom(_, _, _)
FlatFrom(F(_), ends, from) ==
    IF from > Len(ends) THEN <<>>
    ELSE F(ends[from]) \o FlatFrom(F, ends, from + 1)

FlatMap(F(_), ends) == Bind(ends, LAMBDA v : FlatFrom(F, v, 1))

\* q, q-1, .., p
DownTo(q, p) == [i \in 1..(q - p + 1) |-> q - i + 1]

\* end of the longest run of characters satisfying Is from p on
RECURSIVE RunEnd(_, _, _)
RunEnd(Is(_), text, p) ==
    IF p < Len(text) /\ Is(text[p + 1]) THEN RunEnd(Is, text, p + 1) ELSE p

\* NUM = \d+(?:[.,]\d+)?
NumEnds(text, p) ==
    LET Ends(dmax) ==
            LET Frac(fmax) ==
                    IF fmax > dmax + 1 THEN DownTo(fmax, dmax + 2) ELSE <<>>
            IN  IF dmax = p THEN <<>>
                ELSE Bind(IF dmax < Len(text) /\ text[dmax + 1] \in {".", ","}
                          THEN RunEnd(IsDigit, text, dmax + 1) ELSE dmax, Frac)
                       \o DownTo(dmax, p + 1)
    IN  Bind(RunEnd(IsDigit, text, p), Ends)

\* \s*
SpaceEnds(text, p) == DownTo(RunEnd(IsSpace, text, p), p)

\* a literal, case-insensitive
MatchLit(text, p, lit) ==
    /\ p + Len(lit) <= Len(text)
    /\ \A i \in 1..Len(lit) : Lower(text[p + i]) = lit[i]

\* one alternative  lit (?:\s* (o1|o2..))? [а-я]*  where the optional group
\* and the letter tail may be absent
AltEnds(text, p, alt) ==
    IF ~MatchLit(text, p, alt.lit) THEN <<>>
    ELSE LET q == p + Len(alt.lit)
             OptAt(w) ==
                 LET OneOpt(k) == IF MatchLit(text, w, alt.opts[k])
                                  THEN <<w + Len(alt.opts[k])>> ELSE <<>>
                 IN  FlatMap(OneOpt, [k \in 1..Len(alt.opts) |-> k])
             group == FlatMap(OptAt, IF alt.optSpace THEN SpaceEnds(text, q)
                                     ELSE <<q>>)
             base == group \o <<q>>
             Tail_(b) == DownTo(RunEnd(IsAYa, text, b), b)
         IN  IF alt.tail THEN FlatMap(Tail_, base) ELSE base

Alt(lit, opts, optSpace, tail) ==
    [lit |-> lit, opts |-> opts, optSpace |-> optSpace, tail |-> tail]

\* UNIT
UNIT ==
    << Alt(<<"l">>, << <<".">> >>, FALSE, FALSE),
       Alt(<<"l", "i", "t", "r">>, <<>>, FALSE, TRUE),
       Alt(<<"m", "l">>, << <<".">> >>, FALSE, FALSE),
       Alt(<<"k", "g">>, << <<".">> >>, FALSE, FALSE),
       Alt(<<"g">>, << <<"r", "a", "m", "m">> >>, FALSE, FALSE),
       Alt(<<"g", "r">>, << <<"a", "m", "m">> >>, FALSE, FALSE),
       Alt(<<"sh", "t">>, << <<"u", "k">> >>, FALSE, FALSE),
       Alt(<<"r", "u", "l", "o", "n">>, <<>>, FALSE, TRUE),
       Alt(<<"p", "a", "k", "e", "t">>, << <<"i", "k">> >>, FALSE, TRUE),
       Alt(<<"d", "e", "s", "ya", "t", "o", "k">>,
           << <<"sh", "t">>, <<"sh", "t", "u", "k">> >>, TRUE, FALSE) >>

\* PWORD = (?:%|проц(?:ент)?[а-я]*)
PWORD ==
    << Alt(<<"%">>, <<>>, FALSE, FALSE),
       Alt(<<"p", "r", "o", "c">>, << <<"e", "n", "t">> >>, FALSE, TRUE) >>

AltsEnds(text, p, alts) ==
    LET One(k) == AltEnds(text, p, alts[k])
    IN  FlatMap(One, [k \in 1..Len(alts) |-> k])

\* (?<!\w)(?:NUM\s*W|W\s*NUM)(?!\w) tried at position s: <<e>> for the match
\* (s, e), <<>> for no match
MatchAt(text, s, alts) ==
    LET W(p) == AltsEnds(text, p, alts)
        N(p) == NumEnds(text, p)
        Sp(p) == SpaceEnds(text, p)
        SpW(p) == FlatMap(W, Sp(p))
        SpN(p) == FlatMap(N, Sp(p))
        cands == FlatMap(SpW, N(s)) \o FlatMap(SpN, W(s))
        Ahead(e) == e = Len(text) \/ ~IsWordChar(text[e + 1])
        First(good) == IF good = <<>> THEN <<>> ELSE <<good[1]>>
    IN  IF s > 0 /\ IsWordChar(text[s]) THEN <<>>
        ELSE Bind(SelectSeq(cands, Ahead), First)

\* regex.finditer(text): the matches (s, e), left to right, not overlapping
RECURSIVE FindIter(_, _, _)
FindIter(text, pos, alts) ==
    IF pos > Len(text) THEN <<>>
    ELSE LET Rest(m) ==
                 IF m = <<>> THEN FindIter(text, pos + 1, alts)
                 ELSE <<[s |-> pos, e |-> m[1]]>>
                        \o FindIter(text, IF m[1] > pos THEN m[1] ELSE pos + 1,
                                    alts)
         IN  Bind(MatchAt(text, pos, alts), Rest)

VOLUME_RE(text) == FindIter(text, 0, UNIT)
PERCENT_RE(text) == FindIter(text, 0, PWORD)

\* ---- words and their normal forms ----

DEFAULT_PREPOSITIONS ==
    {<<"v">>, <<"v", "o">>, <<"n", "a">>, <<"k">>, <<"k", "o">>,
     <<"o", "t">>, <<"d", "o">>, <<"i", "z">>, <<"i", "z", "o">>, <<"s">>,
     <<"s", "o">>, <<"u">>, <<"z", "a">>, <<"d", "l", "ya">>, <<"p", "o">>,
     <<"o">>, <<"o", "b">>, <<"o", "b", "o">>, <<"p", "r", "i">>,
     <<"ch", "e", "r", "e", "z">>, <<"n", "a", "d">>, <<"p", "o", "d">>,
     <<"p", "e", "r", "e", "d">>, <<"m", "e", "zh", "d", "u">>,
     <<"p", "r", "o">>, <<"b", "e", "z">>, <<"o", "k", "o", "l", "o">>,
     <<"v", "o", "k", "r", "u", "g">>, <<"p", "o", "s", "l", "e">>,
     <<"s", "r", "e", "d", "i">>, <<"v", "n", "e">>,
     <<"k", "r", "o", "m", "e">>, <<"r", "a", "d", "i">>,
     <<"s", "o", "g", "l", "a", "s", "n", "o">>,
     <<"n", "a", "s", "ch", "yo", "t">>, <<"n", "a", "s", "ch", "e", "t">>,
     <<"v", "m", "e", "s", "t", "o">>, <<"v", "r", "o", "d", "e">>,
     <<"n", "a", "p", "e", "r", "e", "k", "o", "r">>,
     <<"v", "o", "p", "r", "e", "k", "i">>, <<"s", "k", "v", "o", "z", "q">>,
     <<"p", "u", "t", "yo", "m">>, <<"p", "u", "t", "e", "m">>,
     <<"b", "l", "a", "g", "o", "d", "a", "r", "ya">>,
     <<"i", "z", "-", "z", "a">>, <<"i", "z", "z", "a">>,
     <<"i", "z", "-", "p", "o", "d">>, <<"i", "z", "p", "o", "d">>,
     <<"v", "s", "l", "e", "d">>,
     <<"n", "a", "v", "s", "t", "r", "e", "ch", "u">>,
     <<"m", "i", "m", "o">>, <<"v", "d", "o", "l", "q">>,
     <<"p", "o", "p", "e", "r", "yo", "k">>,
     <<"p", "o", "p", "e", "r", "e", "k">>, <<"v", "g", "l", "u", "b", "q">>,
     <<"v", "sh", "i", "r", "q">>, <<"v", "o", "k", "r", "e", "s", "t">>,
     <<"p", "o", "p", "r", "o", "s", "t", "u">>, <<"d", "o", "ya">>,
     <<"m", "y", "t", "q", "ya">>, <<"d", "l">>}

\* split_words_with_offsets: the maximal runs of non-space characters
RECURSIVE SplitFrom(_, _)
SplitFrom(text, p) ==
    IF p >= Len(text) THEN <<>>
    ELSE IF IsSpace(text[p + 1]) THEN SplitFrom(text, p + 1)
    ELSE LET NonSpace(ch) == ~IsSpace(ch)
             Word(e) == <<[tok |-> Slice(text, p, e), s |-> p, e |-> e]>>
                          \o SplitFrom(text, e)
         IN  Bind(RunEnd(NonSpace, text, p), Word)

split_words_with_offsets(text) == SplitFrom(text, 0)

\* str.strip(chars)
RECURSIVE LStripFrom(_, _, _)
LStripFrom(t, chars, k) ==
    IF k <= Len(t) /\ t[k] \in chars THEN LStripFrom(t, chars, k + 1)
    ELSE SubSeq(t, k, Len(t))
LStrip(t, chars) == LStripFrom(t, chars, 1)

RECURSIVE RStripTo(_, _, _)
RStripTo(t, chars, k) ==
    IF k >= 1 /\ t[k] \in chars THEN RStripTo(t, chars, k - 1)
    ELSE SubSeq(t, 1, k)
RStrip(t, chars) == RStripTo(t, chars, Len(t))

\* [F(x) for x in t]
MapSeq(F(_), t) ==
    LET Each(v) == [i \in 1..Len(v) |-> F(v[i])]
    IN  Bind(t, Each)

\* token.strip(punctuation and quotes).lower()
_normalize_token(token) ==
    LET Strip(t) == Bind(LStrip(t, Punct), LAMBDA u : RStrip(u, Punct))
    IN  MapSeq(Lower, Bind(token, Strip))

\* .replace("ё", "е").replace("ъ", "")
_norm_for_fuzzy(token) ==
    LET YoToE(ch) == IF ch = "yo" THEN "e" ELSE ch
        NotHard(ch) == ch # "w"
    IN  SelectSeq(MapSeq(YoToE, _normalize_token(token)), NotHard)

Min3(a, b, c) == Min(a, Min(b, c))

\* one row of the edit-distance table: cur[0] = i and
\* cur[j] = min(cur[j-1] + 1, prev[j] + 1, prev[j-1] + cost)
\* (rows are 1-indexed here: element j + 1 is column j)
RECURSIVE LevRow(_, _, _, _)
LevRow(prev, ca, b, cur) ==
    LET j == Len(cur)
        Go(next) == LevRow(prev, ca, b, next)
    IN  IF j > Len(b) THEN cur
        ELSE Bind(Append(cur, Min3(cur[j] + 1, prev[j + 1] + 1,
                                   prev[j] + (IF ca = b[j] THEN 0 ELSE 1))), Go)

RECURSIVE LevRows(_, _, _, _)
LevRows(a, b, i, prev) ==
    LET Go(row) == LevRows(a, b, i + 1, row)
    IN  IF i > Len(a) THEN prev
        ELSE Bind(LevRow(prev, a[i], b, <<i>>), Go)

LevOf(a, b) ==
    IF a = b THEN 0
    ELSE IF a = <<>> THEN Len(b)
    ELSE IF b = <<>> THEN Len(a)
    ELSE LevRows(a, b, 1, [j \in 1..(Len(b) + 1) |-> j - 1])[Len(b) + 1]

_levenshtein(a, b) ==
    Bind(<<a, b>>, LAMBDA v : LevOf(v[1], v[2]))

StartsWith(t, pre) == Len(t) >= Len(pre) /\ SubSeq(t, 1, Len(pre)) = pre

\* "большой", "больш"
BOLSHOJ == <<"b", "o", "l", "q", "sh", "o", "j">>
BOLSH == <<"b", "o", "l", "q", "sh">>
\* targets = ["объем", "обьем", "обем"]
OBEM_TARGETS == { <<"o", "b", "w", "e", "m">>, <<"o", "b", "q", "e", "m">>,
                  <<"o", "b", "e", "m">> }

_is_adj_big(token) ==
    LET Test(t) == StartsWith(t, BOLSH) \/ _levenshtein(t, BOLSHOJ) <= 1
    IN  Bind(_norm_for_fuzzy(token), Test)

\* (variant: the threshold is 3)
_is_noun_volumeWithin3(token) ==
    LET Test(t) == \E tgt \in OBEM_TARGETS : _levenshtein(t, tgt) <= 3
    IN  Bind(_norm_for_fuzzy(token), Test)

_is_noun_volume(token) ==
    LET Test(t) == \E tgt \in OBEM_TARGETS : _levenshtein(t, tgt) <= 1
    IN  Bind(_norm_for_fuzzy(token), Test)

\* ---- labels and spans ----

\* A label is "O" or a prefix and an entity type joined by "-"; the record
\* keeps the two parts so that label.split("-", 1)[-1] is the field typ.
O == [pre |-> "", typ |-> "O"]
B(t) == [pre |-> "B", typ |-> t]
I(t) == [pre |-> "I", typ |-> t]
Span(s, e, lab) == [s |-> s, e |-> e, lab |-> lab]

spans_overlap(a_start, a_end, b_start, b_end) ==
    Max(0, Min(a_end, b_end) - Max(a_start, b_start)) > 0

\* sorted(..., key=lambda x: (x[0], x[1])): a stable sort
PosLeq(x, y) == x.s < y.s \/ (x.s = y.s /\ x.e <= y.e)

RECURSIVE InsertByPos(_, _)
InsertByPos(sorted, x) ==
    IF sorted = <<>> THEN <<x>>
    ELSE IF PosLeq(Head(sorted), x)
         THEN <<Head(sorted)>> \o InsertByPos(Tail(sorted), x)
         ELSE <<x>> \o sorted

\* the first n spans, sorted
RECURSIVE SortFirst(_, _)
SortFirst(spans, n) ==
    LET Ins(sorted) == InsertByPos(sorted, spans[n])
    IN  IF n = 0 THEN <<>> ELSE Bind(SortFirst(spans, n - 1), Ins)

SortByPos(spans) == Bind(spans, LAMBDA v : SortFirst(v, Len(v)))

\* the loop of sanitize_bio from the k-th sorted span on
RECURSIVE SanitizeFrom(_, _, _)
SanitizeFrom(spans, k, seen_started) ==
    IF k > Len(spans) THEN <<>>
    ELSE LET x == spans[k]
             t == x.lab.typ
             Rest(seen) == SanitizeFrom(spans, k + 1, seen)
         IN  IF x.lab.pre = "I"
             THEN <<IF t \notin seen_started THEN Span(x.s, x.e, B(t)) ELSE x>>
                    \o Bind(seen_started \cup {t}, Rest)
             ELSE IF x.lab.pre = "B"
             THEN <<x>> \o Bind(seen_started \cup {t}, Rest)
             ELSE <<x>> \o Rest(seen_started)

sanitize_bio(spans) ==
    Bind(SortByPos(spans), LAMBDA sorted : SanitizeFrom(sorted, 1, {}))

OverlapsAny(s, e, result) ==
    \E k \in 1..Len(result) : spans_overlap(s, e, result[k].s, result[k].e)

\* text[a:b].strip() == ""
BlankBetween(text, a, b) ==
    \A k \in (a + 1)..b : k <= Len(text) => IsSpace(text[k])

\* add_entities from the k-th match on: last is the end of the last span
\* added, or -1 for None
RECURSIVE AddFrom(_, _, _, _, _, _)
AddFrom(text, ms, k, ent_type, result, last) ==
    IF k > Len(ms) THEN result
    ELSE LET m == ms[k]
             lab == IF last # -1 /\ BlankBetween(text, last, m.s)
                    THEN I(ent_type) ELSE B(ent_type)
             Added(r) == AddFrom(text, ms, k + 1, ent_type, r, m.e)
         IN  IF OverlapsAny(m.s, m.e, result)
             THEN AddFrom(text, ms, k + 1, ent_type, result, last)
             ELSE Bind(Append(result, Span(m.s, m.e, lab)), Added)

AddEntities(text, ms, ent_type, result) ==
    Bind(<<ms, result>>, LAMBDA v : AddFrom(text, v[1], 1, ent_type, v[2], -1))

inject_regex_entities(text, base_spans) ==
    sanitize_bio(AddEntities(text, PERCENT_RE(text), "PERCENT",
                     AddEntities(text, VOLUME_RE(text), "VOLUME", base_spans)))

RECURSIVE InjectBigrams(_, _, _)
InjectBigrams(words, i, result) ==
    IF i >= Len(words) THEN result
    ELSE LET w1 == words[i]
             w2 == words[i + 1]
             Go(r) == InjectBigrams(words, i + 1, r)
         IN  IF /\ _is_adj_big(w1.tok) /\ _is_noun_volume(w2.tok)
                /\ ~OverlapsAny(w1.s, w1.e, result)
                /\ ~OverlapsAny(w2.s, w2.e, result)
             THEN Bind(result \o <<Span(w1.s, w1.e, B("VOLUME")),
                                   Span(w2.s, w2.e, I("VOLUME"))>>, Go)
             ELSE Go(result)

inject_volume_keywords_levenshtein(text, base_spans) ==
    sanitize_bio(Bind(<<split_words_with_offsets(text), base_spans>>,
                      LAMBDA v : InjectBigrams(v[1], 1, v[2])))

\* not (e <= ws or s >= we)
Intersects(s, e, ws, we) == ~(e <= ws \/ s >= we)

LeadingO(words, spans) ==
    IF words = <<>> THEN spans
    ELSE IF \E k \in 1..Len(spans) :
                Intersects(spans[k].s, spans[k].e, words[1].s, words[1].e)
         THEN spans
         ELSE SortByPos(Append(spans, Span(words[1].s, words[1].e, O)))

ensure_leading_word_O(text, spans) ==
    Bind(<<split_words_with_offsets(text), spans>>,
         LAMBDA v : LeadingO(v[1], v[2]))

\* first_tok in {"все", "всё"}
ALL_WORDS == { <<"v", "s", "e">>, <<"v", "s", "yo">> }

\* ---- span-level rules ----

\* nullify_count: int = 2
NULLIFY_COUNT == 2

\* the ascending sequence of a finite set of integers
RECURSIVE SortedSeq(_)
SortedSeq(S) ==
    LET From(T) ==
            IF T = {} THEN <<>>
            ELSE LET Put(m) == <<m>> \o SortedSeq(T \ {m})
                 IN  Bind(CHOOSE x \in T : \A y \in T : x <= y, Put)
    IN  Bind(S, From)

\* index of the word covering the start of a span, else of the first word
\* starting at or after it, else 0 (the code's -1; words are 1-indexed here)
EntWordIdx(words, s) ==
    LET cover == {wi \in 1..Len(words) : words[wi].s <= s /\ s < words[wi].e}
        after == {wi \in 1..Len(words) : words[wi].s >= s}
    IN  IF cover # {} THEN CHOOSE wi \in cover : \A wj \in cover : wi <= wj
        ELSE IF after # {} THEN CHOOSE wi \in after : \A wj \in after : wi <= wj
        ELSE 0

PrepIndices(words) ==
    SortedSeq({wi \in 1..Len(words) :
                   _normalize_token(words[wi].tok) \in DEFAULT_PREPOSITIONS})

\* word_to_span_idxs: word index -> the indices of the spans mapped to it
WordToSpanIdxs(words, spans) ==
    LET Of(idx) ==
            [w \in {idx[ei] : ei \in 1..Len(idx)} \ {0} |->
                {ei \in 1..Len(idx) : idx[ei] = w}]
    IN  Bind([ei \in 1..Len(spans) |-> EntWordIdx(words, spans[ei].s)], Of)

\* the inner loop over sorted_entity_word_idxs for one preposition, from the
\* k-th entity word on
RECURSIVE DropAfter(_, _, _, _, _, _)
DropAfter(pidx, widxs, k, ofWord, drop, dropped_words) ==
    IF k > Len(widxs) THEN drop
    ELSE LET widx == widxs[k]
             More(d) == DropAfter(pidx, widxs, k + 1, ofWord, d, dropped_words + 1)
         IN  IF widx <= pidx \/ ofWord[widx] \cap drop # {}
             THEN DropAfter(pidx, widxs, k + 1, ofWord, drop, dropped_words)
             ELSE IF dropped_words + 1 >= NULLIFY_COUNT
                  THEN drop \cup ofWord[widx]
                  ELSE Bind(drop \cup ofWord[widx], More)

\* the loop over prep_indices, from the k-th preposition on
RECURSIVE DropForPreps(_, _, _, _, _)
DropForPreps(preps, k, widxs, ofWord, drop) ==
    IF k > Len(preps) THEN drop
    ELSE LET pidx == preps[k]
             After(d) == DropAfter(pidx, widxs, 1, ofWord, d, 0)
             Go(d) == DropForPreps(preps, k + 1, widxs, ofWord, d)
         IN  Bind(Bind(IF pidx \in DOMAIN ofWord THEN drop \cup ofWord[pidx]
                       ELSE drop, After), Go)

Covered(new_spans, ws, we) ==
    \E k \in 1..Len(new_spans) : ws >= new_spans[k].s /\ we <= new_spans[k].e

AddUncovered(new_spans, w) ==
    IF Covered(new_spans, w.s, w.e) THEN new_spans
    ELSE Append(new_spans, Span(w.s, w.e, O))

RECURSIVE ForceNext(_, _, _, _)
ForceNext(words, pidx, k, new_spans) ==
    LET Go(r) == ForceNext(words, pidx, k + 1, r)
    IN  IF k > NULLIFY_COUNT THEN new_spans
        ELSE IF pidx + k <= Len(words)
             THEN Bind(AddUncovered(new_spans, words[pidx + k]), Go)
             ELSE Go(new_spans)

\* the second loop over prep_indices, from the k-th preposition on
RECURSIVE ForcePreps(_, _, _, _)
ForcePreps(words, preps, k, new_spans) ==
    LET Window(r) == ForceNext(words, preps[k], 1, r)
        Go(r) == ForcePreps(words, preps, k + 1, r)
    IN  IF k > Len(preps) THEN new_spans
        ELSE Bind(Bind(AddUncovered(new_spans, words[preps[k]]), Window), Go)

NullifyAfter(words, spans, prep_indices, ofWord) ==
    LET Mark(to_drop) ==
            IF to_drop = {} /\ prep_indices = <<>> THEN spans
            ELSE SortByPos(ForcePreps(words, prep_indices, 1,
                     [ei \in 1..Len(spans) |->
                         IF ei \in to_drop
                         THEN Span(spans[ei].s, spans[ei].e, O) ELSE spans[ei]]))
        Keys(widxs) == Bind(DropForPreps(prep_indices, 1, widxs, ofWord, {}), Mark)
    IN  Bind(SortedSeq(DOMAIN ofWord), Keys)

nullify_entities_after_prepositions(text, spans) ==
    LET Go(words) ==
            LET With(v) ==
                    IF v[1] = <<>> THEN v[1]
                    ELSE NullifyAfter(words, v[1], v[2], v[3])
            IN  Bind(<<spans, PrepIndices(words), WordToSpanIdxs(words, spans)>>,
                     With)
    IN  Bind(split_words_with_offsets(text), Go)

\* (variant: each application also drops the first span)
nullify_if_starts_with_allDropping(text, spans) ==
    LET Go(v) ==
            IF v[1] = <<>> THEN v[2]
            ELSE IF _normalize_token(v[1][1].tok) \in ALL_WORDS
                 THEN [k \in 1..(Len(v[2]) - 1) |->
                          Span(v[2][k + 1].s, v[2][k + 1].e, O)]
                 ELSE v[2]
    IN  Bind(<<split_words_with_offsets(text), spans>>, Go)

nullify_if_starts_with_all(text, spans) ==
    LET Go(v) ==
            IF v[1] = <<>> THEN v[2]
            ELSE IF _normalize_token(v[1][1].tok) \in ALL_WORDS
                 THEN [k \in 1..Len(v[2]) |-> Span(v[2][k].s, v[2][k].e, O)]
                 ELSE v[2]
    IN  Bind(<<split_words_with_offsets(text), spans>>, Go)

\* ---- word-level rules ----

\* nullify_count_after_prep: int = 2
nullify_count_after_prep == 2

\* (variant: prev_type is never set, every entity word opens a run)
RecomputeBIONoPrev(base) ==
    LET Bio(b) == [i \in 1..Len(b) |-> IF b[i] = "O" THEN O ELSE B(b[i])]
    IN  Bind(base, Bio)

\* the closing loop of both word-level functions: base types to BIO labels
RecomputeBIO(base) ==
    LET Bio(b) ==
            [i \in 1..Len(b) |->
                IF b[i] = "O" THEN O
                ELSE IF i > 1 /\ b[i - 1] = b[i] THEN I(b[i])
                ELSE B(b[i])]
    IN  Bind(base, Bio)

\* (variant: a later token overwrites the type of the word)
RECURSIVE DeriveBaseLastWins(_, _, _, _)
DeriveBaseLastWins(words, toks, k, word_base) ==
    IF k > Len(toks) THEN word_base
    ELSE LET x == toks[k]
             cover == {wi \in 1..Len(words) :
                           words[wi].s <= x.s /\ x.s < words[wi].e}
             Go(wb) == DeriveBaseLastWins(words, toks, k + 1, wb)
             Set(wi) == Bind([word_base EXCEPT ![wi] = x.lab.typ], Go)
         IN  IF x.lab = O \/ cover = {} THEN Go(word_base)
             ELSE Bind(CHOOSE w \in cover : \A v \in cover : w <= v, Set)

\* the loop over the sorted token spans, from the k-th on
RECURSIVE DeriveBase(_, _, _, _)
DeriveBase(words, toks, k, word_base) ==
    IF k > Len(toks) THEN word_base
    ELSE LET x == toks[k]
             cover == {wi \in 1..Len(words) :
                           words[wi].s <= x.s /\ x.s < words[wi].e}
             Go(wb) == DeriveBase(words, toks, k + 1, wb)
             Set(wi) == IF word_base[wi] = "O"
                        THEN Bind([word_base EXCEPT ![wi] = x.lab.typ], Go)
                        ELSE Go(word_base)
         IN  IF x.lab = O \/ cover = {} THEN Go(word_base)
             ELSE Bind(CHOOSE w \in cover : \A v \in cover : w <= v, Set)

derive_word_bio_from_token_spans(words, token_spans) ==
    LET Go(toks) == DeriveBase(words, toks, 1, [i \in 1..Len(words) |-> "O"])
    IN  RecomputeBIO(Bind(SortByPos(token_spans), Go))

\* base = [b.split("-", 1)[-1] if b != "O" else "O" for b in bio]
BaseOf(bio) ==
    LET TypeOf(lab) == lab.typ
    IN  MapSeq(TypeOf, bio)

\* (variant: only the word holding the start of the match is set)
SetOnMatchesStartWord(words, base, ms, typ) ==
    LET Set(v) ==
            [i \in 1..Len(v[1]) |->
                IF \E k \in 1..Len(v[2]) :
                       /\ i <= Len(words)
                       /\ words[i].s <= v[2][k].s /\ v[2][k].s < words[i].e
                THEN typ ELSE v[1][i]]
    IN  Bind(<<base, ms>>, Set)

\* for m in regex.finditer(text): every word with
\* not (we <= s or ws >= e) gets the type, whatever it had
SetOnMatches(words, base, ms, typ) ==
    LET Set(v) ==
            [i \in 1..Len(v[1]) |->
                IF \E k \in 1..Len(v[2]) :
                       /\ i <= Len(words)
                       /\ ~(words[i].e <= v[2][k].s \/ words[i].s >= v[2][k].e)
                THEN typ ELSE v[1][i]]
    IN  Bind(<<base, ms>>, Set)

RegexPass(text, words, base) ==
    SetOnMatches(words, SetOnMatches(words, base, VOLUME_RE(text), "VOLUME"),
                 PERCENT_RE(text), "PERCENT")

\* the bigram test is made on the words already passed through
\* _norm_for_fuzzy, which the two predicates apply once more
IsBigram(words, i) ==
    /\ i >= 1 /\ i < Len(words)
    /\ _is_adj_big(_norm_for_fuzzy(words[i].tok))
    /\ _is_noun_volume(_norm_for_fuzzy(words[i + 1].tok))

\* (variant: a word that already has a type keeps it)
BigramPassIfO(words, base) ==
    LET Set(b) ==
            [i \in 1..Len(b) |->
                IF b[i] = "O" /\ (IsBigram(words, i) \/ IsBigram(words, i - 1))
                THEN "VOLUME" ELSE b[i]]
    IN  Bind(base, Set)

BigramPass(words, base) ==
    LET Set(b) ==
            [i \in 1..Len(b) |->
                IF IsBigram(words, i) \/ IsBigram(words, i - 1) THEN "VOLUME"
                ELSE b[i]]
    IN  Bind(base, Set)

StartsWithAll(words) ==
    words # <<>> /\ _normalize_token(words[1].tok) \in ALL_WORDS

\* (variant: only the first word is cleared)
AllPassFirstWord(words, base) ==
    LET Set(b) ==
            IF StartsWithAll(words)
            THEN [i \in 1..Len(b) |-> IF i = 1 THEN "O" ELSE b[i]] ELSE b
    IN  Bind(base, Set)

AllPass(words, base) ==
    IF StartsWithAll(words) THEN [i \in 1..Len(words) |-> "O"] ELSE base

IsPrep(words, i) ==
    i \in 1..Len(words) /\ _normalize_token(words[i].tok) \in DEFAULT_PREPOSITIONS

\* (variant: the window is one word shorter)
PrepPassShort(words, base) ==
    LET Set(b) ==
            [j \in 1..Len(b) |->
                IF \E k \in 0..(nullify_count_after_prep - 1) : IsPrep(words, j - k)
                THEN "O" ELSE b[j]]
    IN  Bind(base, Set)

PrepPass(words, base) ==
    LET Set(b) ==
            [j \in 1..Len(b) |->
                IF \E k \in 0..nullify_count_after_prep : IsPrep(words, j - k)
                THEN "O" ELSE b[j]]
    IN  Bind(base, Set)

apply_word_level_rules(text, words, bio) ==
    RecomputeBIO(PrepPass(words, AllPass(words, BigramPass(words,
                     RegexPass(text, words, BaseOf(bio))))))

\* (variant: only the entity words are emitted)
word_bio_to_spansEntitiesOnly(words, bio) ==
    LET NotO(x) == x.lab # O
        Zip(b) == [i \in 1..Min(Len(words), Len(b)) |->
                      Span(words[i].s, words[i].e, b[i])]
    IN  SelectSeq(Bind(bio, Zip), NotO)

\* zip(words, bio)
word_bio_to_spans(words, bio) ==
    LET Zip(b) == [i \in 1..Min(Len(words), Len(b)) |->
                      Span(words[i].s, words[i].e, b[i])]
    IN  Bind(bio, Zip)

\* (variant: the special tokens are not dropped)
FilterRawKeepSpecial(raw) ==
    LET Keep(x) == x.lab # O
    IN  SelectSeq(raw, Keep)

\* predict_bio for one text, from the Labeler's (start, end, label) triples
FilterRaw(raw) ==
    LET Keep(x) == ~(x.s = 0 /\ x.e = 0) /\ x.lab # O
    IN  SelectSeq(raw, Keep)

TokenRules(text, spans) ==
    ensure_leading_word_O(text,
      nullify_if_starts_with_all(text,
        nullify_entities_after_prepositions(text,
          inject_volume_keywords_levenshtein(text,
            inject_regex_entities(text, spans)))))

predict_bio(text, raw) ==
    LET Emit(words) ==
            word_bio_to_spans(words,
                apply_word_level_rules(text, words,
                    derive_word_bio_from_token_spans(words,
                        TokenRules(text, FilterRaw(raw)))))
    IN  Bind(split_words_with_offsets(text), Emit)

\* run, for one text: the special tokens are dropped, the O tokens are kept
FilterSpecial(raw) ==
    LET Keep(x) == ~(x.s = 0 /\ x.e = 0)
    IN  SelectSeq(raw, Keep)

\* run with the regex post-processing switched on (the default)
run(text, raw) ==
    LET Emit(words) ==
            word_bio_to_spans(words,
                apply_word_level_rules(text, words,
                    derive_word_bio_from_token_spans(words, FilterSpecial(raw))))
    IN  Bind(split_words_with_offsets(text), Emit)

\* ---- the request pipeline as a state machine ----

\* bounds: words per text, and leading words the Labeler may label
MaxWords == 3
MaxTokens == 2
\* bound: words per text of the longer texts over the smaller vocabulary
MaxLongWords == 5

\* The words texts are made of: "5", "мл", "5%", "В," (a preposition in
\* upper case with punctuation), "всё", "больш-5%" (an adjective form
\* holding a percentage), "обе", and the empty word, which puts extra
\* white space into a text.
Vocab ==
    { <<"5">>, <<"m", "l">>, <<"5", "%">>, <<"V", ",">>, <<"v", "s", "yo">>,
      <<"b", "o", "l", "q", "sh", "-", "5", "%">>, <<"o", "b", "e">>, <<>> }

\* " ".join(ws)
RECURSIVE Join(_)
Join(ws) ==
    IF ws = <<>> THEN <<>>
    ELSE IF Len(ws) = 1 THEN ws[1]
    ELSE ws[1] \o <<" ">> \o Join(Tail(ws))

Texts == { Join(ws) : ws \in UNION { [1..n -> Vocab] : n \in 0..MaxWords } }

\* The Labeler's output for a text: the special token with offsets (0, 0)
\* first, then for each of the first MaxTokens words one token over the
\* word, labelled O, B-BRAND or I-TYPE.
CLS == Span(0, 0, B("BRAND"))
TokenLabels == { O, B("BRAND"), I("TYPE") }
TokensOver(w) == { <<Span(w.s, w.e, lab)>> : lab \in TokenLabels }

RECURSIVE RawsOver(_, _)
RawsOver(words, n) ==
    IF n = 0 \/ words = <<>> THEN { <<>> }
    ELSE { t \o r : t \in TokensOver(Head(words)),
                    r \in RawsOver(Tail(words), n - 1) }

RawsFor(text) ==
    { <<CLS>> \o r : r \in RawsOver(split_words_with_offsets(text), MaxTokens) }

\* The longer texts are made of the preposition, a percentage and a plain
\* word.
LongVocab == { <<"V", ",">>, <<"5", "%">>, <<"o", "b", "e">> }

LongTexts ==
    { Join(ws) : ws \in UNION { [1..n -> LongVocab] : n \in 0..MaxLongWords } }

\* Tokens that do not follow the words: one over the last word, the piece of
\* the last word after its first character, and a token that starts right
\* after the first word (in white space, or past the end of a one-word text).
OddTokens(text) ==
    LET Of(words) ==
            IF words = <<>> THEN { Span(Len(text), Len(text) + 1, B("BRAND")) }
            ELSE { Span(words[Len(words)].s, words[Len(words)].e, B("BRAND")),
                   Span(words[Len(words)].s + 1, words[Len(words)].e, I("TYPE")),
                   Span(words[1].e, words[1].e + 1, B("TYPE")) }
    IN  Bind(split_words_with_offsets(text), Of)

\* the special token, then up to MaxTokens such tokens in any order
OddRawsFor(text) ==
    LET Of(toks) ==
            { <<CLS>> \o r : r \in UNION { [1..n -> toks] : n \in 0..MaxTokens } }
    IN  Bind(OddTokens(text), Of)

PipeStart(text, raw) ==
    [pc |-> "input", text |-> text, raw |-> raw, prev |-> <<>>, spans |-> <<>>,
     words |-> <<>>, word_bio |-> <<>>, baseIn |-> <<>>, baseRegex |-> <<>>,
     baseBigram |-> <<>>, baseAll |-> <<>>, basePrep |-> <<>>,
     out_bio |-> <<>>, out |-> <<>>, cli_bio |-> <<>>, cli |-> <<>>]

InitPipe ==
    /\ use_queue = TRUE
    /\ phase = "warmup"
    /\ warmLeft = WarmupCalls
    /\ now = 0
    /\ queue = <<>>
    /\ cstate = [c \in Callers |-> "new"]
    /\ tstart = [c \in Callers |-> 0]
    /\ future = [c \in Callers |-> NoFuture]
    /\ wpc = "notstarted"
    /\ batch = <<>>
    /\ wStart = 0
    /\ running = {}
    /\ direct = {}
    /\ invocations = <<>>
    /\ admitSeq = <<>>
    /\ admitAt = [c \in Callers |-> 0]
    /\ openedAt = 0
    /\ dispatched = <<>>
    /\ \/ \E text \in Texts : \E raw \in RawsFor(text) :
              pipe = PipeStart(text, raw)
       \/ \E text \in LongTexts : \E raw \in OddRawsFor(text) :
              pipe = PipeStart(text, raw)

\* one span-level stage of predict_bio
SpanStage(from, to, spans) ==
    /\ pipe.pc = from
    /\ pipe' = [pipe EXCEPT !.pc = to, !.prev = pipe.spans, !.spans = spans]
    /\ UNCHANGED schedVars

\* predict_bio: the loop over offsets and pred_labels
PipeFilter == SpanStage("input", "filtered", FilterRaw(pipe.raw))

PipeInjectRegex ==
    SpanStage("filtered", "tok_regex", inject_regex_entities(pipe.text, pipe.spans))

PipeInjectBigram ==
    SpanStage("tok_regex", "tok_bigram",
              inject_volume_keywords_levenshtein(pipe.text, pipe.spans))

PipeNullifyPrep ==
    SpanStage("tok_bigram", "tok_prep",
              nullify_entities_after_prepositions(pipe.text, pipe.spans))

PipeNullifyAll ==
    SpanStage("tok_prep", "tok_all",
              nullify_if_starts_with_all(pipe.text, pipe.spans))

PipeLeadingO ==
    SpanStage("tok_all", "tok_done", ensure_leading_word_O(pipe.text, pipe.spans))

\* words = split_words_with_offsets(text);
\* word_bio = derive_word_bio_from_token_spans(words, token_spans)
PipeProject ==
    /\ pipe.pc = "tok_done"
    /\ \E words \in {split_words_with_offsets(pipe.text)} :
          pipe' = [pipe EXCEPT !.pc = "projected", !.words = words,
                      !.word_bio = derive_word_bio_from_token_spans(words, pipe.spans)]
    /\ UNCHANGED schedVars

\* word_bio = apply_word_level_rules(text, words, word_bio); the base
\* sequence after each pass is kept
PipeRules ==
    /\ pipe.pc = "projected"
    /\ \E b0 \in {BaseOf(pipe.word_bio)} :
       \E b1 \in {RegexPass(pipe.text, pipe.words, b0)} :
       \E b2 \in {BigramPass(pipe.words, b1)} :
       \E b3 \in {AllPass(pipe.words, b2)} :
       \E b4 \in {PrepPass(pipe.words, b3)} :
          pipe' = [pipe EXCEPT !.pc = "ruled", !.baseIn = b0, !.baseRegex = b1,
                      !.baseBigram = b2, !.baseAll = b3, !.basePrep = b4,
                      !.out_bio = apply_word_level_rules(pipe.text, pipe.words,
                                                         pipe.word_bio)]
    /\ UNCHANGED schedVars

\* spans = word_bio_to_spans(words, word_bio)
PipeEmit ==
    /\ pipe.pc = "ruled"
    /\ pipe' = [pipe EXCEPT !.pc = "done",
                   !.out = word_bio_to_spans(pipe.words, pipe.out_bio)]
    /\ UNCHANGED schedVars

\* run: the batch command-line path over the same text and Labeler output
PipeCli ==
    /\ pipe.pc = "done"
    /\ pipe' = [pipe EXCEPT !.pc = "cli_done",
                   !.cli_bio = derive_word_bio_from_token_spans(pipe.words,
                                   FilterSpecial(pipe.raw)),
                   !.cli = run(pipe.text, pipe.raw)]
    /\ UNCHANGED schedVars

NextPipe ==
    \/ PipeFilter
    \/ PipeInjectRegex
    \/ PipeInjectBigram
    \/ PipeNullifyPrep
    \/ PipeNullifyAll
    \/ PipeLeadingO
    \/ PipeProject
    \/ PipeRules
    \/ PipeEmit
    \/ PipeCli

SpecPipe == InitPipe /\ [][NextPipe]_vars

\* ==== properties of the request pipeline ====

\* the labels of a sequence of spans
AllO(spans) == \A k \in 1..Len(spans) : spans[k].lab = O
NoWords(text) == \A k \in 1..Len(text) : IsSpace(text[k])

\* C12: the spans emitted by the pipeline are exactly the maximal runs of
\* non-space characters of the text, one span per word with the word's own
\* offsets, in ascending order and without overlap; the label sequence has
\* one label per word after projection, after the rules and after the BIO
\* recomputation; a text without words gives the empty span list.
C12_Partition ==
    LET t == pipe.text
        out == pipe.out
    IN  /\ pipe.pc = "done" =>
            /\ \A i \in 1..Len(out) :
                  /\ 0 <= out[i].s /\ out[i].s < out[i].e /\ out[i].e <= Len(t)
                  /\ \A k \in (out[i].s + 1)..out[i].e : ~IsSpace(t[k])
                  /\ out[i].s = 0 \/ IsSpace(t[out[i].s])
                  /\ out[i].e = Len(t) \/ IsSpace(t[out[i].e + 1])
            /\ \A i \in 1..(Len(out) - 1) : out[i].e <= out[i + 1].s
            /\ \A k \in 1..Len(t) :
                  ~IsSpace(t[k]) =>
                      \E i \in 1..Len(out) : out[i].s < k /\ k <= out[i].e
            /\ Len(out) = Len(pipe.words)
            /\ NoWords(t) => out = <<>>
        /\ pipe.pc \in {"projected", "ruled", "done"} =>
            Len(pipe.word_bio) = Len(pipe.words)
        /\ pipe.pc \in {"ruled", "done"} =>
            /\ Len(pipe.basePrep) = Len(pipe.words)
            /\ Len(pipe.out_bio) = Len(pipe.words)

\* two labelled words separated by more than one space
C12_Witness ==
    /\ pipe.pc = "done"
    /\ Len(pipe.out) = 2
    /\ pipe.out[2].s = pipe.out[1].e + 2
    /\ pipe.out[1].lab # O /\ pipe.out[2].lab # O

\* C13: in the label sequence the rule engine returns, a non-O word is
\* labelled I-<type> exactly when the word before it has the same type and
\* B-<type> otherwise: every maximal run of one type starts with B- and
\* continues with I- only, and no I- stands without a B- or I- of its type
\* immediately before it.
C13_BioWellFormed ==
    pipe.pc \in {"ruled", "done"} =>
        LET bio == pipe.out_bio
        IN  \A i \in 1..Len(bio) :
                /\ bio[i].typ = "O" => bio[i] = O
                /\ bio[i].typ # "O" =>
                      IF i > 1 /\ bio[i - 1].typ = bio[i].typ
                      THEN bio[i].pre = "I" ELSE bio[i].pre = "B"

\* a run of two words followed by a run of another type
C13_Witness ==
    /\ pipe.pc = "ruled"
    /\ pipe.out_bio = <<B("VOLUME"), I("VOLUME"), B("PERCENT")>>

\* the words of the text that a match intersects, and the matches of a text
HitWords(m) ==
    {i \in 1..Len(pipe.words) : Intersects(m.s, m.e, pipe.words[i].s, pipe.words[i].e)}
Matches(ms) == {ms[k] : k \in 1..Len(ms)}
InMatch(ms, i) == \E m \in Matches(ms) : i \in HitWords(m)
Ruled == pipe.pc \in {"ruled", "done"}

\* C14: in the word-level rule engine a VOLUME or PERCENT match that
\* intersects a word already carrying a non-O base is not applied: every
\* word the match intersects keeps the base it had before the regex pass.
C14_RegexRespectsExistingLabels ==
    Ruled =>
        \A m \in Matches(VOLUME_RE(pipe.text)) \cup Matches(PERCENT_RE(pipe.text)) :
            (\E i \in HitWords(m) : pipe.baseIn[i] # "O") =>
                \A i \in HitWords(m) : pipe.baseRegex[i] = pipe.baseIn[i]

\* the Labeler predicted no entity
NoPriorLabels == FilterRaw(pipe.raw) = <<>>

\* "5 мл обе", the shape of "930 мл молока"
NumUnitWord == <<"5", " ", "m", "l", " ", "o", "b", "e">>

C16_BigramForcesVolume ==
    Ruled =>
        \A i \in 1..(Len(pipe.words) - 1) :
            (_is_adj_big(pipe.words[i].tok) /\ _is_noun_volume(pipe.words[i + 1].tok)) =>
                /\ pipe.baseBigram[i] = "VOLUME"
                /\ pipe.baseBigram[i + 1] = "VOLUME"

\* a pair whose first word held a regex type and whose second a Labeler type
C16_Witness ==
    /\ Ruled /\ Len(pipe.words) >= 2
    /\ _is_adj_big(pipe.words[1].tok) /\ _is_noun_volume(pipe.words[2].tok)
    /\ pipe.baseRegex[1] = "PERCENT" /\ pipe.baseRegex[2] = "BRAND"
    /\ pipe.baseBigram[1] = "VOLUME" /\ pipe.baseBigram[2] = "VOLUME"

\* "объем"
CANONICAL_NOUN == <<"o", "b", "w", "e", "m">>
\* the words whose base the bigram pass changed
ChangedByBigram == {j \in 1..Len(pipe.words) : pipe.baseBigram[j] # pipe.baseRegex[j]}
PairsOf(j) == {j - 1, j} \cap 1..(Len(pipe.words) - 1)
NearVariant(tok) ==
    \E tgt \in OBEM_TARGETS : _levenshtein(_norm_for_fuzzy(tok), tgt) <= 1

\* C17: the bigram pass changes a word's base only in a pair whose second
\* word is within edit distance 1 of the canonical noun "объем".
C17_CanonicalOnly ==
    Ruled =>
        \A j \in ChangedByBigram : \E i \in PairsOf(j) :
            _levenshtein(_normalize_token(pipe.words[i + 1].tok), CANONICAL_NOUN) <= 1

\* C17 (amended): the bigram pass changes a word's base only in a pair whose
\* first word passes the adjective test and whose second word, normalized
\* (ё as е, ъ removed), is within edit distance 1 of one of the three
\* variants "объем", "обьем", "обем"; a second word at distance 2 or more
\* from all three is never tagged.
C17_WithinOneOfAVariant ==
    Ruled =>
        \A j \in ChangedByBigram : \E i \in PairsOf(j) :
            /\ _is_adj_big(pipe.words[i].tok)
            /\ NearVariant(pipe.words[i + 1].tok)

\* "обе" is tagged: at distance 2 from "объем" and 1 from "обем"
C17_Witness ==
    /\ Ruled /\ 2 \in ChangedByBigram
    /\ _levenshtein(_normalize_token(pipe.words[2].tok), CANONICAL_NOUN) = 2
    /\ NearVariant(pipe.words[2].tok)
    /\ pipe.baseBigram[2] = "VOLUME"

\* the first word of the text, read off the characters
FirstWordIsAll == StartsWithAll(split_words_with_offsets(pipe.text))

\* C18: if the first word of the text, normalized, is "все" or "всё", every
\* span the pipeline emits for the text has label O.
C18_StartsWithAllNullifies ==
    (pipe.pc = "done" /\ FirstWordIsAll) => AllO(pipe.out)

\* the Labeler predicted an entity and the regex pass set a volume
C18_Witness ==
    /\ pipe.pc = "done" /\ FirstWordIsAll
    /\ Len(pipe.out) = 3 /\ AllO(pipe.out)
    /\ ~NoPriorLabels
    /\ pipe.baseBigram[2] = "VOLUME" /\ pipe.baseBigram[3] = "VOLUME"

\* spans with the offsets of the given ones and label O
Nullified(spans) == [k \in 1..Len(spans) |-> Span(spans[k].s, spans[k].e, O)]

\* C19: start-with-all nullification applied to its own result changes
\* nothing, for span lists and for base sequences; its result is the input
\* with every label O when the first word is "все"/"всё" and the input
\* itself otherwise.
C19_AllIdempotent ==
    /\ pipe.pc = "tok_all" =>
          /\ nullify_if_starts_with_all(pipe.text, pipe.spans) = pipe.spans
          /\ pipe.spans = IF FirstWordIsAll THEN Nullified(pipe.prev) ELSE pipe.prev
    /\ Ruled =>
          /\ AllPass(pipe.words, pipe.baseAll) = pipe.baseAll
          /\ pipe.baseAll = IF FirstWordIsAll
                            THEN [i \in 1..Len(pipe.words) |-> "O"]
                            ELSE pipe.baseBigram

C19_Witness ==
    /\ pipe.pc = "tok_all" /\ FirstWordIsAll
    /\ Len(pipe.prev) >= 2 /\ ~AllO(pipe.prev)
    /\ AllO(pipe.spans)
    /\ nullify_if_starts_with_all(pipe.text, pipe.spans) = pipe.spans

\* C20: after the rule engine, every word whose normalized text is a
\* preposition, and each of the nullify_count_after_prep words after it that
\* exist, is labelled O.
C20_PrepWindowIsO ==
    Ruled =>
        \A i \in 1..Len(pipe.words) :
            _normalize_token(pipe.words[i].tok) \in DEFAULT_PREPOSITIONS =>
                \A j \in i..Min(i + nullify_count_after_prep, Len(pipe.words)) :
                    pipe.out_bio[j] = O

\* a preposition followed by a two-word volume
C20_Witness ==
    /\ Ruled /\ Len(pipe.words) = 3
    /\ _normalize_token(pipe.words[1].tok) \in DEFAULT_PREPOSITIONS
    /\ ~NoPriorLabels
    /\ pipe.baseAll = <<"O", "VOLUME", "VOLUME">>
    /\ pipe.out_bio = <<O, O, O>>

\* word j is a preposition or one of the nullify_count_after_prep words
\* after a preposition
InPrepWindow(words, j) ==
    \E k \in 0..nullify_count_after_prep : IsPrep(words, j - k)

\* the base types that projection of the Labeler's own tokens, followed by
\* the regex and the bigram injection passes, gives the words of the text
LabelerThenInjected ==
    LET words == split_words_with_offsets(pipe.text)
    IN  BigramPass(words,
            RegexPass(pipe.text, words,
                BaseOf(derive_word_bio_from_token_spans(words, FilterRaw(pipe.raw)))))

\* C21: in the spans predict_bio returns for a text that does not start with
\* "все"/"всё", every word that is neither a preposition nor one of the two
\* words after a preposition has the base type that projection of the
\* Labeler's tokens and the injection passes gave it, a type predicted by the
\* Labeler included.
C21_OutsideWindowKept ==
    (pipe.pc = "done" /\ ~FirstWordIsAll) =>
        \A j \in 1..Len(pipe.words) :
            ~InPrepWindow(pipe.words, j) =>
                pipe.out[j].lab.typ = LabelerThenInjected[j]

\* the tokens with a label other than O whose start lies inside word i
StartingIn(words, toks, i) ==
    {k \in 1..Len(toks) :
        /\ toks[k].lab # O
        /\ words[i].s <= toks[k].s /\ toks[k].s < words[i].e}

\* token k comes no later than token m in ascending (start, end) order,
\* tokens with equal offsets in the order given
NoLater(toks, k, m) ==
    \/ toks[k].s < toks[m].s
    \/ toks[k].s = toks[m].s /\ toks[k].e < toks[m].e
    \/ toks[k].s = toks[m].s /\ toks[k].e = toks[m].e /\ k <= m

\* each word has the type of the earliest such token, or O without one
FirstTokenWins(words, toks, bio) ==
    /\ Len(bio) = Len(words)
    /\ \A i \in 1..Len(words) :
          IF StartingIn(words, toks, i) = {} THEN bio[i] = O
          ELSE \E k \in StartingIn(words, toks, i) :
                  /\ \A m \in StartingIn(words, toks, i) : NoLater(toks, k, m)
                  /\ bio[i].typ = toks[k].lab.typ

\* C22: projection gives each word the base type of the first token, in
\* ascending start order, that has a label other than O and starts inside
\* the word, whatever the types of the later tokens that start in the word;
\* a word without such a token is O. It holds on the request path, where
\* the tokens come from the token-level rules, and on the command-line
\* path, where they are the Labeler's tokens in the order given.
C22_FirstTokenWins ==
    /\ pipe.pc \in {"projected", "ruled", "done", "cli_done"} =>
          FirstTokenWins(pipe.words, pipe.spans, pipe.word_bio)
    /\ pipe.pc = "cli_done" =>
          FirstTokenWins(pipe.words, FilterSpecial(pipe.raw), pipe.cli_bio)

\* "обе" with the piece (1,3) I-TYPE given before the whole word (0,3)
\* B-BRAND: on both paths the word is BRAND
C22_Witness ==
    /\ pipe.pc = "cli_done"
    /\ pipe.text = <<"o", "b", "e">>
    /\ pipe.raw = <<CLS, Span(1, 3, I("TYPE")), Span(0, 3, B("BRAND"))>>
    /\ Len(pipe.spans) = 2
    /\ pipe.spans[1].lab.typ = "BRAND" /\ pipe.spans[2].lab.typ = "TYPE"
    /\ pipe.word_bio = <<B("BRAND")>>
    /\ pipe.cli_bio = <<B("BRAND")>>

\* the start of token x lies inside no word
Stray(words, x) ==
    \A i \in 1..Len(words) : ~(words[i].s <= x.s /\ x.s < words[i].e)
Special(x) == x.s = 0 /\ x.e = 0

\* the tokens that are neither special nor stray
Regular(words, toks) ==
    LET Keep(x) == ~Special(x) /\ ~Stray(words, x)
    IN  SelectSeq(toks, Keep)

\* C23: projection skips a token whose start lies inside no word, and no
\* special token with offsets (0,0) reaches it: on both paths the labels
\* projection gives, one per word, are those it gives for the other tokens
\* alone.
C23_StraySkipped ==
    /\ pipe.pc \in {"projected", "ruled", "done", "cli_done"} =>
          /\ \A k \in 1..Len(pipe.spans) : ~Special(pipe.spans[k])
          /\ Len(pipe.word_bio) = Len(pipe.words)
          /\ pipe.word_bio =
                derive_word_bio_from_token_spans(pipe.words,
                    Regular(pipe.words, pipe.spans))
    /\ pipe.pc = "cli_done" =>
          /\ Len(pipe.cli_bio) = Len(pipe.words)
          /\ pipe.cli_bio =
                derive_word_bio_from_token_spans(pipe.words,
                    Regular(pipe.words, pipe.raw))

\* "обе обе" with the special token B-BRAND, a token B-TYPE in the white
\* space after the first word and B-BRAND on the second word: the first
\* word is O, the second BRAND
C23_Witness ==
    /\ pipe.pc = "cli_done"
    /\ pipe.text = <<"o", "b", "e", " ", "o", "b", "e">>
    /\ pipe.raw = <<CLS, Span(3, 4, B("TYPE")), Span(4, 7, B("BRAND"))>>
    /\ \E k \in 1..Len(pipe.spans) :
          Stray(pipe.words, pipe.spans[k]) /\ pipe.spans[k].lab.typ = "TYPE"
    /\ pipe.word_bio = <<O, B("BRAND")>>
    /\ pipe.cli_bio = <<O, B("BRAND")>>

\* the words that carry a span, and the entity words between two words
EntityWords(words, spans) ==
    {EntWordIdx(words, spans[k].s) : k \in 1..Len(spans)} \ {0}
EntityWordsBetween(words, spans, p, w) ==
    {v \in EntityWords(words, spans) : p < v /\ v < w}

\* word w is not a preposition and, for every preposition before it, is
\* not one of the first NULLIFY_COUNT entity words after that preposition
BeyondEveryPrep(words, spans, w) ==
    /\ ~IsPrep(words, w)
    /\ \A p \in 1..(w - 1) :
          IsPrep(words, p) =>
              Cardinality(EntityWordsBetween(words, spans, p, w)) >= NULLIFY_COUNT

\* C24: token-level preposition nullification keeps the label of every span
\* on a word that is not a preposition and is not among the first two
\* entity words after any preposition before it, also with several
\* prepositions in the text.
C24_OnlyFirstEntityWordsDropped ==
    pipe.pc = "tok_prep" =>
        \A k \in 1..Len(pipe.prev) :
            LET w == EntWordIdx(split_words_with_offsets(pipe.text), pipe.prev[k].s)
            IN  (w # 0 /\ BeyondEveryPrep(split_words_with_offsets(pipe.text),
                                         pipe.prev, w)) =>
                    \E m \in 1..Len(pipe.spans) : pipe.spans[m] = pipe.prev[k]

\* C27: for the same text and the same Labeler output, the request path
\* (predict_bio) and the command-line path (run) emit the same span list.
C27_PathsAgree ==
    pipe.pc = "cli_done" => pipe.cli = pipe.out

====
